---- MODULE Spec2Model ----
(***************************************************************************)
(* Model of the blot animation core: BlotAnimator (the Sequencer) driving   *)
(* an SDFBlot (the ShapeField).                                             *)
(*                                                                          *)
(* Numbers.  JavaScript numbers are modelled in fixed point:                *)
(*   - morph factors, easing progress, intensities: thousandths (Scale);    *)
(*   - coordinates: tenths of a pixel (PosScale);                           *)
(*   - the blot's time and phases: ten-thousandths;                         *)
(*   - the clock Date.now(), durations and deltaTime: milliseconds.         *)
(* A product with a fractional factor is rounded to the nearest unit, as a  *)
(* float operation rounds to the nearest representable value.  NaN is a     *)
(* distinguished value that every arithmetic operation propagates.          *)
(***************************************************************************)
EXTENDS Integers, Sequences, FiniteSets, TLC

\* ------------------------------------------------------------------ bounds
MaxTicks == 4           \* clock advances (Spec, FieldSpec)
MaxSeqs == 4            \* sequences ever enqueued (Spec)
MaxFieldSeqs == 4       \* sequences ever enqueued (FieldSpec)
MaxBlotUpdates == 2     \* SDFBlot.update calls (FieldSpec)
MaxFrames == 120        \* frames the driver runs (ScenarioSpec)
MaxCallerSeqs == 1      \* sequences ever enqueued (CallerSpec)

\* ------------------------------------------------------- units and values
Scale == 1000
PosScale == 10
NaN == 0 - 999999
Undefined == 0 - 1

ClockSteps == {400}
FrameSteps == {100}
DeltaTimes == {16}
UpdateDeltas == {16, 1000}
Modes == {"idle", "active", "menuExpanded"}
Priorities == {1, 5, 10}
Durations == {400}

\* round-to-nearest quotient of integers, b > 0
RDiv(a, b) == (2 * a + b) \div (2 * b)

Min(a, b) == IF a < b THEN a ELSE b
Max(a, b) == IF a > b THEN a ELSE b

\* ------------------------------------------------------------ SDFBlot
VARIABLES blot

\* constructor(canvas, initialX, initialY)
NewBlot(initialX, initialY) ==
    [x |-> initialX, y |-> initialY,
     targetX |-> initialX, targetY |-> initialY,
     time |-> 0, state |-> "idle",
     morphFactor |-> 0, targetMorphFactor |-> 0,
     breathingPhase |-> 0, pulsePhase |-> 0, wigglePhase |-> 0,
     breathingIntensity |-> Undefined]

\* x += (target - x) * rate, rate given in hundredths
Smooth(x, target, ratePct) ==
    IF x = NaN \/ target = NaN THEN NaN
    ELSE x + RDiv((target - x) * ratePct, 100)

\* mutant: the position step scaled by deltaTime
BlotUpdatedPerMillisecond(b, deltaTime) ==
    [b EXCEPT !.time = @ + deltaTime * 200,
              !.x = Smooth(@, b.targetX, 8 * deltaTime),
              !.y = Smooth(@, b.targetY, 8 * deltaTime),
              !.morphFactor = Smooth(@, b.targetMorphFactor, 10),
              !.breathingPhase = @ + deltaTime * 10,
              !.pulsePhase = @ + deltaTime * 20,
              !.wigglePhase = @ + deltaTime * 15]

\* update(deltaTime)
BlotUpdated(b, deltaTime) ==
    [b EXCEPT !.time = @ + deltaTime * 200,
              !.x = Smooth(@, b.targetX, 8),
              !.y = Smooth(@, b.targetY, 8),
              !.morphFactor = Smooth(@, b.targetMorphFactor, 10),
              !.breathingPhase = @ + deltaTime * 10,
              !.pulsePhase = @ + deltaTime * 20,
              !.wigglePhase = @ + deltaTime * 15]

\* the case labels of setState's switch
KnownModes == {"idle", "active", "menu-expanded"}

\* mutant: a default branch that falls back to idle
BlotSetStateDefaultIdle(b, newState) ==
    [b EXCEPT !.state = newState,
              !.targetMorphFactor =
                  CASE newState = "idle" -> 0
                    [] newState = "active" -> 300
                    [] newState = "menu-expanded" -> 1000
                    [] OTHER -> 0]

\* setState(newState): the switch has no default branch
BlotSetState(b, newState) ==
    [b EXCEPT !.state = newState,
              !.targetMorphFactor =
                  CASE newState = "idle" -> 0
                    [] newState = "active" -> 300
                    [] newState = "menu-expanded" -> 1000
                    [] OTHER -> @]

\* moveTo(x, y)
BlotMoveTo(b, x, y) == [b EXCEPT !.targetX = x, !.targetY = y]

\* ------------------------------------------------------------ BlotAnimator
VARIABLES animationQueue, isAnimating, currentSequence, now, nextId,
          enqueued, activationLog, discarded, pc, thrown, moveCall

\* now            Date.now()
\* nextId         identity of the next sequence object created
\* enqueued       history: enqueued[i] is the type and priority sequence i was
\*                enqueued with
\* activationLog  history: ids in the order playNextAnimation activated them
\* discarded      history: ids retired on completion or dropped by emergencyStop
\* pc             the frame driver's position: "clock", "animator" or "field"
\* thrown         history: a call of update has ended in an uncaught TypeError
\* moveCall       history: the arguments of the caller's latest own call of
\*                createMoveSequence, and the waypoint list it returned

\* easingFunctions[name](t), t in thousandths
Ease(name, t) ==
    IF t = NaN THEN NaN
    ELSE CASE name = "linear" -> t
           [] name = "easeInOut" ->
                IF t < 500 THEN RDiv(2 * t * t, Scale)
                ELSE (0 - Scale) + RDiv((4 * Scale - 2 * t) * t, Scale)
           [] name = "easeOut" ->
                Scale - RDiv(RDiv((Scale - t) * (Scale - t), Scale) * (Scale - t), Scale)
           [] name = "easeIn" -> RDiv(RDiv(t * t, Scale) * t, Scale)

\* Math.min(elapsed / duration, 1): undefined duration and 0/0 give NaN
Progress(elapsed, duration) ==
    IF duration = Undefined THEN NaN
    ELSE IF duration = 0 THEN (IF elapsed = 0 THEN NaN ELSE Scale)
    ELSE Min(RDiv(elapsed * Scale, duration), Scale)

\* a sequence object with every field a factory or the queue may set
BlankSequence ==
    [id |-> 0, type |-> "none", priority |-> Undefined, duration |-> Undefined,
     easing |-> "undefined", continuous |-> FALSE, startTime |-> Undefined,
     waypoints |-> <<>>, fromValue |-> 0, toValue |-> 0,
     intensity |-> 0, frequency |-> 0]

\* morphValues[state] || 0
MorphValue(state) ==
    CASE state = "idle" -> 0
      [] state = "active" -> 300
      [] state = "menuExpanded" -> 1000
      [] OTHER -> 0

\* createMorphSequence(fromState, toState, duration)
createMorphSequence(fromState, toState, duration) ==
    [BlankSequence EXCEPT !.type = "morph",
                          !.fromValue = MorphValue(fromState),
                          !.toValue = MorphValue(toState),
                          !.duration = duration,
                          !.easing = "easeOut",
                          !.startTime = 0]

\* createBreathingSequence(intensity, frequency)
createBreathingSequence(intensity, frequency) ==
    [BlankSequence EXCEPT !.type = "breathing",
                          !.intensity = intensity,
                          !.frequency = frequency,
                          !.continuous = TRUE]

\* animationPresets[state]
HasPreset(state) == state \in {"idle", "active", "menuExpanded"}
PresetIntensity(state) ==
    CASE state = "idle" -> 50 [] state = "active" -> 80 [] state = "menuExpanded" -> 30
PresetFrequency(state) ==
    CASE state = "idle" -> 800 [] state = "active" -> 1200 [] state = "menuExpanded" -> 600

\* null: no sequence object
Null == [BlankSequence EXCEPT !.type = "null"]

\* integer square root (floor), by bisection
RECURSIVE IsqrtIn(_, _, _)
IsqrtIn(n, lo, hi) ==
    IF hi - lo <= 1 THEN lo
    ELSE LET mid == (lo + hi) \div 2
         IN IF mid * mid <= n THEN IsqrtIn(n, mid, hi) ELSE IsqrtIn(n, lo, mid)
Isqrt(n) == IsqrtIn(n, 0, 46341)

\* mutant: the detour waypoint without the clamp into the viewport
DetourUnclamped(startX, startY, avoidX, avoidY, side, innerWidth, innerHeight) ==
    LET dx == avoidX - startX
        dy == avoidY - startY
        dist == Isqrt((dx * dx + dy * dy) * 100)
        cosA == IF dist = 0 THEN Scale ELSE RDiv(dx * 10 * Scale, dist)
        sinA == IF dist = 0 THEN 0 ELSE RDiv(dy * 10 * Scale, dist)
        cosP == IF side = 1 THEN 0 - sinA ELSE sinA
        sinP == IF side = 1 THEN cosA ELSE 0 - cosA
    IN [x |-> avoidX + RDiv(cosP * 120 * PosScale, Scale),
        y |-> avoidY + RDiv(sinP * 120 * PosScale, Scale)]

\* the detour waypoint of createMoveSequence: 120 px from the avoid point,
\* perpendicular to the start->avoid bearing, clamped into the viewport.
\* side = 1 when Math.random() > 0.5 (perpAngle = angle + PI/2), else -1.
\* cos(angle) = dx/dist and sin(angle) = dy/dist, and atan2(0, 0) = 0.
DetourWaypoint(startX, startY, avoidX, avoidY, side, innerWidth, innerHeight) ==
    LET dx == avoidX - startX
        dy == avoidY - startY
        dist == Isqrt((dx * dx + dy * dy) * 100)       \* in 1/(10*PosScale) px
        cosA == IF dist = 0 THEN Scale ELSE RDiv(dx * 10 * Scale, dist)
        sinA == IF dist = 0 THEN 0 ELSE RDiv(dy * 10 * Scale, dist)
        cosP == IF side = 1 THEN 0 - sinA ELSE sinA
        sinP == IF side = 1 THEN cosA ELSE 0 - cosA
        waypointX == avoidX + RDiv(cosP * 120 * PosScale, Scale)
        waypointY == avoidY + RDiv(sinP * 120 * PosScale, Scale)
    IN [x |-> Max(60 * PosScale, Min(innerWidth - 60 * PosScale, waypointX)),
        y |-> Max(60 * PosScale, Min(innerHeight - 60 * PosScale, waypointY))]

\* mutant: the detour taken whenever the avoid point is near, however short
\* the way to the target
createMoveDetourWhenNear(b, targetX, targetY, avoidX, avoidY, duration, side, innerWidth, innerHeight) ==
    LET startX == b.x
        startY == b.y
        mouseSq == (avoidX - startX) * (avoidX - startX) + (avoidY - startY) * (avoidY - startY)
        start == <<[x |-> startX, y |-> startY]>>
        detour == IF mouseSq < (100 * PosScale) * (100 * PosScale)
                  THEN <<DetourWaypoint(startX, startY, avoidX, avoidY, side, innerWidth, innerHeight)>>
                  ELSE <<>>
    IN [BlankSequence EXCEPT !.type = "move",
                             !.waypoints = start \o detour \o <<[x |-> targetX, y |-> targetY]>>,
                             !.duration = duration,
                             !.easing = "easeInOut",
                             !.startTime = 0]

\* createMoveSequence(targetX, targetY, avoidX, avoidY, duration)
createMoveSequence(b, targetX, targetY, avoidX, avoidY, duration, side, innerWidth, innerHeight) ==
    LET startX == b.x
        startY == b.y
        directSq == (targetX - startX) * (targetX - startX) + (targetY - startY) * (targetY - startY)
        mouseSq == (avoidX - startX) * (avoidX - startX) + (avoidY - startY) * (avoidY - startY)
        start == <<[x |-> startX, y |-> startY]>>
        detour == IF mouseSq < (100 * PosScale) * (100 * PosScale)
                     /\ directSq > (50 * PosScale) * (50 * PosScale)
                  THEN <<DetourWaypoint(startX, startY, avoidX, avoidY, side, innerWidth, innerHeight)>>
                  ELSE <<>>
    IN [BlankSequence EXCEPT !.type = "move",
                             !.waypoints = start \o detour \o <<[x |-> targetX, y |-> targetY]>>,
                             !.duration = duration,
                             !.easing = "easeInOut",
                             !.startTime = 0]

\* The animator's own fields together with the history of its sequences.
Animator ==
    [animationQueue |-> animationQueue, isAnimating |-> isAnimating,
     currentSequence |-> currentSequence, nextId |-> nextId, enqueued |-> enqueued,
     activationLog |-> activationLog, discarded |-> discarded]

\* mutant: an insertion that places a sequence before its equals
RECURSIVE InsertBeforeEquals(_, _)
InsertBeforeEquals(sorted, s) ==
    IF sorted = <<>> THEN <<s>>
    ELSE IF Head(sorted).priority > s.priority
         THEN <<Head(sorted)>> \o InsertBeforeEquals(Tail(sorted), s)
         ELSE <<s>> \o sorted

\* mutant: the queue left in insertion order
SortForgotten(q) == q

\* Array.prototype.sort((a, b) => b.priority - a.priority): a stable sort
\* (ECMAScript 2019), descending by priority.
RECURSIVE InsertByPriority(_, _)
InsertByPriority(sorted, s) ==
    IF sorted = <<>> THEN <<s>>
    ELSE IF Head(sorted).priority >= s.priority
         THEN <<Head(sorted)>> \o InsertByPriority(Tail(sorted), s)
         ELSE <<s>> \o sorted
RECURSIVE SortByPriority(_)
SortByPriority(q) ==
    IF q = <<>> THEN <<>>
    ELSE InsertByPriority(SortByPriority(SubSeq(q, 1, Len(q) - 1)), q[Len(q)])

\* mutant: the head is played but left in the queue
playNextWithoutShift(a, clock) ==
    IF Len(a.animationQueue) = 0
    THEN [a EXCEPT !.isAnimating = FALSE]
    ELSE [a EXCEPT !.currentSequence = [Head(a.animationQueue) EXCEPT !.startTime = clock],
                   !.isAnimating = TRUE,
                   !.activationLog = Append(@, Head(a.animationQueue).id)]

\* mutant: the flag is left set when the queue is empty
playNextKeepsFlag(a, clock) ==
    IF Len(a.animationQueue) = 0
    THEN a
    ELSE [a EXCEPT !.currentSequence = [Head(a.animationQueue) EXCEPT !.startTime = clock],
                   !.animationQueue = Tail(a.animationQueue),
                   !.isAnimating = TRUE,
                   !.activationLog = Append(@, Head(a.animationQueue).id)]

\* playNextAnimation()
playNextAnimation(a, clock) ==
    IF Len(a.animationQueue) = 0
    THEN [a EXCEPT !.isAnimating = FALSE]
    ELSE [a EXCEPT !.currentSequence = [Head(a.animationQueue) EXCEPT !.startTime = clock],
                   !.animationQueue = Tail(a.animationQueue),
                   !.isAnimating = TRUE,
                   !.activationLog = Append(@, Head(a.animationQueue).id)]

\* mutant: the head is played on every call
queueAnimationAlwaysPlays(a, sequence, priority, clock) ==
    LET seq == [sequence EXCEPT !.id = a.nextId, !.priority = priority]
        pushed == [a EXCEPT !.animationQueue = SortByPriority(Append(@, seq)),
                            !.nextId = @ + 1,
                            !.enqueued = Append(@, [type |-> sequence.type, priority |-> priority])]
    IN playNextAnimation(pushed, clock)

\* queueAnimation(sequence, priority), for a sequence object fresh from a factory
queueAnimation(a, sequence, priority, clock) ==
    LET seq == [sequence EXCEPT !.id = a.nextId, !.priority = priority]
        pushed == [a EXCEPT !.animationQueue = SortByPriority(Append(@, seq)),
                            !.nextId = @ + 1,
                            !.enqueued = Append(@, [type |-> sequence.type, priority |-> priority])]
    IN IF ~pushed.isAnimating THEN playNextAnimation(pushed, clock) ELSE pushed

\* mutant: no snap to the final waypoint when the last segment is passed
updateMoveWithoutSnap(b, seq, progress) ==
    LET waypoints == seq.waypoints
        segmentCount == Len(waypoints) - 1
        segmentProgress == progress * segmentCount
        segmentIndex == segmentProgress \div Scale
        localProgress == segmentProgress - segmentIndex * Scale
        current == waypoints[segmentIndex + 1]
        next == waypoints[segmentIndex + 2]
    IN IF Len(waypoints) < 2 \/ segmentIndex >= segmentCount THEN b
       ELSE BlotMoveTo(b, current.x + RDiv((next.x - current.x) * localProgress, Scale),
                          current.y + RDiv((next.y - current.y) * localProgress, Scale))

\* updateMoveAnimation(progress), for the calls that return (see UpdateThrows)
updateMoveAnimation(b, seq, progress) ==
    LET waypoints == seq.waypoints
        segmentCount == Len(waypoints) - 1
        segmentProgress == progress * segmentCount
        segmentIndex == segmentProgress \div Scale
        localProgress == segmentProgress - segmentIndex * Scale
        current == waypoints[segmentIndex + 1]
        next == waypoints[segmentIndex + 2]
    IN IF Len(waypoints) < 2 THEN b
       ELSE IF segmentIndex >= segmentCount
            THEN BlotMoveTo(b, waypoints[Len(waypoints)].x, waypoints[Len(waypoints)].y)
            ELSE BlotMoveTo(b, current.x + RDiv((next.x - current.x) * localProgress, Scale),
                               current.y + RDiv((next.y - current.y) * localProgress, Scale))

\* mutant: the morph value written to the target as well
updateMorphWritesTarget(b, seq, progress) ==
    LET morphValue == IF progress = NaN THEN NaN
                      ELSE seq.fromValue + RDiv((seq.toValue - seq.fromValue) * progress, Scale)
    IN [b EXCEPT !.morphFactor = morphValue, !.targetMorphFactor = morphValue]

\* mutant: the interpolation without "- from"
updateMorphWithoutFrom(b, seq, progress) ==
    [b EXCEPT !.morphFactor =
        IF progress = NaN THEN NaN
        ELSE seq.fromValue + RDiv(seq.toValue * progress, Scale)]

\* updateMorphAnimation(progress)
updateMorphAnimation(b, seq, progress) ==
    [b EXCEPT !.morphFactor =
        IF progress = NaN THEN NaN
        ELSE seq.fromValue + RDiv((seq.toValue - seq.fromValue) * progress, Scale)]

\* updateBreathingAnimation(deltaTime)
updateBreathingAnimation(b, seq) == [b EXCEPT !.breathingIntensity = seq.intensity]

\* mutant: !(progress < 1), the continuous flag not consulted
IsNotBelowOne(seq, progress) == ~(progress # NaN /\ progress < Scale)

\* progress >= 1 && !continuous
IsComplete(seq, progress) == progress # NaN /\ progress >= Scale /\ ~seq.continuous

\* the progress update() computes for the active sequence
CurrentProgress(seq, clock) == Progress(clock - seq.startTime, seq.duration)

\* easingFunctions[easing || 'linear'](progress)
EasedProgress(seq, clock) ==
    Ease(IF seq.easing = "undefined" THEN "linear" ELSE seq.easing, CurrentProgress(seq, clock))

\* updateMoveAnimation with a NaN progress and two or more waypoints:
\* Math.floor(NaN) is NaN, NaN >= segmentCount is false, waypoints[NaN] is
\* undefined, and reading current.x throws a TypeError
UpdateThrows(seq, clock) ==
    /\ seq.type = "move"
    /\ Len(seq.waypoints) >= 2
    /\ EasedProgress(seq, clock) = NaN

\* the dispatch of update(): the blot after the active sequence's handler
Dispatched(b, seq, clock) ==
    LET easedProgress == EasedProgress(seq, clock)
    IN CASE seq.type = "move" -> updateMoveAnimation(b, seq, easedProgress)
         [] seq.type = "morph" -> updateMorphAnimation(b, seq, easedProgress)
         [] seq.type = "breathing" -> updateBreathingAnimation(b, seq)
         [] OTHER -> b

\* mutant: the active sequence is retired and the next one is not played
RetiredWithoutNext(a, clock) ==
    IF IsComplete(a.currentSequence, CurrentProgress(a.currentSequence, clock))
    THEN [a EXCEPT !.currentSequence = Null,
                   !.discarded = @ \cup {a.currentSequence.id}]
    ELSE a

\* the completion check of update(): retire the active sequence, play the next
Retired(a, clock) ==
    IF IsComplete(a.currentSequence, CurrentProgress(a.currentSequence, clock))
    THEN playNextAnimation([a EXCEPT !.currentSequence = Null,
                                     !.discarded = @ \cup {a.currentSequence.id}], clock)
    ELSE a

\* mutant: the queue is cleared but the active sequence is kept
emergencyStopQueueOnly(a) ==
    [a EXCEPT !.animationQueue = <<>>,
              !.discarded = @ \cup {a.animationQueue[i].id : i \in 1..Len(a.animationQueue)}]

\* emergencyStop()
emergencyStop(a) ==
    [a EXCEPT !.animationQueue = <<>>,
              !.currentSequence = Null,
              !.isAnimating = FALSE,
              !.discarded = @ \cup {a.animationQueue[i].id : i \in 1..Len(a.animationQueue)}
                              \cup (IF a.currentSequence = Null THEN {} ELSE {a.currentSequence.id})]

\* null passed (or defaulted) for a target coordinate
NullCoord == 0 - 1000000

\* mutant: the priorities of the morph and the move exchanged
transitionQueuedSwapped(a, b, newState, target, avoid, side, viewport, clock) ==
    LET morphSeq == createMorphSequence(b.state, newState, 600)
        a1 == queueAnimation(a, morphSeq, 9, clock)
        a2 == IF target[1] # NullCoord /\ target[2] # NullCoord
              THEN queueAnimation(a1,
                       createMoveSequence(b, target[1], target[2], avoid[1], avoid[2],
                                          800, side, viewport[1], viewport[2]),
                       10, clock)
              ELSE a1
    IN IF HasPreset(newState)
       THEN queueAnimation(a2,
                createBreathingSequence(PresetIntensity(newState), PresetFrequency(newState)),
                1, clock)
       ELSE a2

\* transitionToState(newState, targetX, targetY, avoidX, avoidY): the animator
\* after its queueAnimation calls; target = <<targetX, targetY>>.
transitionQueued(a, b, newState, target, avoid, side, viewport, clock) ==
    LET morphSeq == createMorphSequence(b.state, newState, 600)
        a1 == queueAnimation(a, morphSeq, 10, clock)
        a2 == IF target[1] # NullCoord /\ target[2] # NullCoord
              THEN queueAnimation(a1,
                       createMoveSequence(b, target[1], target[2], avoid[1], avoid[2],
                                          800, side, viewport[1], viewport[2]),
                       9, clock)
              ELSE a1
    IN IF HasPreset(newState)
       THEN queueAnimation(a2,
                createBreathingSequence(PresetIntensity(newState), PresetFrequency(newState)),
                1, clock)
       ELSE a2

vars == <<blot, animationQueue, isAnimating, currentSequence, now, nextId,
          enqueued, activationLog, discarded, pc, thrown, moveCall>>

\* the animator variables take the values of record a
SetAnimator(a) ==
    /\ animationQueue' = a.animationQueue
    /\ isAnimating' = a.isAnimating
    /\ currentSequence' = a.currentSequence
    /\ nextId' = a.nextId
    /\ enqueued' = a.enqueued
    /\ activationLog' = a.activationLog
    /\ discarded' = a.discarded

animVars == <<animationQueue, isAnimating, currentSequence, nextId, enqueued,
              activationLog, discarded>>

\* ------------------------------------------------------------ operations

\* no call of createMoveSequence made yet
NoCall == [made |-> FALSE, start |-> <<0, 0>>, target |-> <<0, 0>>, avoid |-> <<0, 0>>,
           side |-> 1, viewport |-> <<0, 0>>, waypoints |-> <<>>]

\* the inputs the operations are called with
InitialX == 100 * PosScale
InitialY == 100 * PosScale
Targets == {<<NullCoord, NullCoord>>, <<300 * PosScale, NullCoord>>,
            <<300 * PosScale, 300 * PosScale>>}
AvoidPoints == {<<0, 0>>}
Viewports == {<<800 * PosScale, 600 * PosScale>>}
Sides == {1, 0 - 1}
SetStateInputs == KnownModes \cup {"hover"}
QueuedSequences ==
    {createMorphSequence(f, t, d) : f \in {"idle"}, t \in {"active"}, d \in Durations}

Init ==
    /\ blot = NewBlot(InitialX, InitialY)
    /\ animationQueue = <<>>
    /\ isAnimating = FALSE
    /\ currentSequence = Null
    /\ now = 0
    /\ nextId = 1
    /\ enqueued = <<>>
    /\ activationLog = <<>>
    /\ discarded = {}
    /\ pc = "clock"
    /\ thrown = FALSE
    /\ moveCall = NoCall

\* Date.now() advances between calls
AdvanceClock(d) ==
    /\ now' = now + d
    /\ UNCHANGED <<blot, animVars, thrown, moveCall>>

\* BlotAnimator.queueAnimation(sequence, priority)
QueueAnimation(sequence, priority) ==
    /\ SetAnimator(queueAnimation(Animator, sequence, priority, now))
    /\ UNCHANGED <<blot, now, thrown, moveCall>>

\* BlotAnimator.transitionToState(newState, targetX, targetY, avoidX, avoidY)
TransitionToState(newState, target, avoid, side, viewport) ==
    /\ SetAnimator(transitionQueued(Animator, blot, newState, target, avoid, side, viewport, now))
    /\ blot' = BlotSetState(blot, newState)
    /\ UNCHANGED <<now, thrown, moveCall>>

\* BlotAnimator.update(deltaTime).  The TypeError leaves update before any
\* field has been written.
Update(deltaTime) ==
    IF currentSequence = Null
    THEN UNCHANGED <<blot, now, animVars, thrown, moveCall>>
    ELSE IF UpdateThrows(currentSequence, now)
    THEN /\ thrown' = TRUE
         /\ UNCHANGED <<blot, now, animVars, moveCall>>
    ELSE /\ blot' = Dispatched(blot, currentSequence, now)
         /\ SetAnimator(Retired(Animator, now))
         /\ UNCHANGED <<now, thrown, moveCall>>

\* BlotAnimator.emergencyStop()
EmergencyStop ==
    /\ SetAnimator(emergencyStop(Animator))
    /\ UNCHANGED <<blot, now, thrown, moveCall>>

\* SDFBlot.update(deltaTime)
BlotUpdate(deltaTime) ==
    /\ blot' = BlotUpdated(blot, deltaTime)
    /\ UNCHANGED <<now, animVars, thrown, moveCall>>

\* SDFBlot.setState(newState)
SetState(newState) ==
    /\ blot' = BlotSetState(blot, newState)
    /\ UNCHANGED <<now, animVars, thrown, moveCall>>

\* room for k more sequences under the bound
Room(k, max) == nextId + k - 1 <= max

\* the sequences a transitionToState call with this target enqueues
SeqsQueued(t) == IF t[1] # NullCoord /\ t[2] # NullCoord THEN 3 ELSE 2

\* the clock and the blot's time stay under the bounds
ClockRoom(d) == now + d <= MaxTicks * d
BlotRoom(dt) == blot.time + dt * 200 <= MaxBlotUpdates * dt * 200

\* the animator under every interleaving of its operations
Next ==
    \/ \E d \in ClockSteps : ClockRoom(d) /\ AdvanceClock(d) /\ UNCHANGED pc
    \/ \E s \in QueuedSequences, p \in Priorities :
          Room(1, MaxSeqs) /\ QueueAnimation(s, p) /\ UNCHANGED pc
    \/ \E m \in Modes, t \in Targets, av \in AvoidPoints, sd \in Sides, vp \in Viewports :
          Room(SeqsQueued(t), MaxSeqs) /\ TransitionToState(m, t, av, sd, vp) /\ UNCHANGED pc
    \/ \E dt \in UpdateDeltas : Update(dt) /\ UNCHANGED pc
    \/ EmergencyStop /\ UNCHANGED pc

Spec == Init /\ [][Next]_vars

\* the field under setState, transitionToState and both update calls
FieldNext ==
    \/ \E d \in ClockSteps : ClockRoom(d) /\ AdvanceClock(d) /\ UNCHANGED pc
    \/ \E m \in Modes, t \in {<<NullCoord, NullCoord>>}, sd \in Sides, vp \in Viewports :
          Room(SeqsQueued(t), MaxFieldSeqs) /\ TransitionToState(m, t, <<0, 0>>, sd, vp) /\ UNCHANGED pc
    \/ \E dt \in UpdateDeltas : Update(dt) /\ UNCHANGED pc
    \/ \E dt \in DeltaTimes : BlotRoom(dt) /\ BlotUpdate(dt) /\ UNCHANGED pc
    \/ \E m \in SetStateInputs : SetState(m) /\ UNCHANGED pc

FieldSpec == Init /\ [][FieldNext]_vars

\* The scenario: a driver calls transitionToState("menuExpanded", 300, 300, 0, 0)
\* on the fresh pair and then runs frames; in each frame the clock advances,
\* then BlotAnimator.update runs, then SDFBlot.update.  Once the first
\* transition has played out it may call transitionToState a second time,
\* leaving at least SecondCallFrames frames to follow.
ScenarioTarget == <<300 * PosScale, 300 * PosScale>>
SecondCallFrames == 40
FramesLeft(n) == \A d \in FrameSteps : now + n * d <= MaxFrames * d
PlayedOut == currentSequence.type = "breathing" /\ animationQueue = <<>>

ScenarioNext ==
    \/ /\ pc = "clock" /\ nextId = 1
       /\ \E sd \in Sides, vp \in Viewports :
             TransitionToState("menuExpanded", ScenarioTarget, <<0, 0>>, sd, vp)
       /\ UNCHANGED pc
    \/ /\ pc = "clock" /\ nextId = 4 /\ PlayedOut /\ FramesLeft(SecondCallFrames)
       /\ \E m \in Modes, t \in Targets, sd \in Sides, vp \in Viewports :
             TransitionToState(m, t, <<0, 0>>, sd, vp)
       /\ UNCHANGED pc
    \/ /\ pc = "clock" /\ nextId > 1 /\ FramesLeft(1)
       /\ \E d \in FrameSteps : AdvanceClock(d)
       /\ pc' = "animator"
    \/ /\ pc = "animator"
       /\ \E d \in FrameSteps : Update(d)
       /\ pc' = "field"
    \/ /\ pc = "field"
       /\ \E d \in FrameSteps : BlotUpdate(d)
       /\ pc' = "clock"

ScenarioSpec == Init /\ [][ScenarioNext]_vars

\* the scenario with a driver that keeps running its frames: the clock keeps
\* advancing and update keeps being called
ScenarioFairSpec == Init /\ [][ScenarioNext]_vars /\ WF_vars(ScenarioNext)

\* A caller that uses the factories and queueAnimation directly, with its own
\* durations and waypoint lists, on a field that starts at one of Starts.
Starts == {<<0, 0>>, <<100 * PosScale, 100 * PosScale>>, <<750 * PosScale, 550 * PosScale>>}
MoveTargets == {<<200 * PosScale, 0>>, <<30 * PosScale, 40 * PosScale>>}
CallerAvoids == {<<50 * PosScale, 0>>, <<60 * PosScale, 80 * PosScale>>, <<0, 0>>,
                 <<780 * PosScale, 560 * PosScale>>}
CallerViewports == {<<800 * PosScale, 600 * PosScale>>, <<100 * PosScale, 100 * PosScale>>}
CallerDurations == {0, 800}
CallerPriorities == {9}

\* move sequences built by hand, with no waypoint or a single one
ShortMoves ==
    {[BlankSequence EXCEPT !.type = "move", !.waypoints = w, !.duration = d,
                           !.easing = "easeInOut", !.startTime = 0] :
        w \in {<<>>, <<[x |-> 200 * PosScale, y |-> 0]>>}, d \in CallerDurations}
CallerSequences ==
    ShortMoves \cup {createMorphSequence("idle", "active", d) : d \in CallerDurations}

CallerInit ==
    /\ blot \in {NewBlot(s[1], s[2]) : s \in Starts}
    /\ animationQueue = <<>>
    /\ isAnimating = FALSE
    /\ currentSequence = Null
    /\ now = 0
    /\ nextId = 1
    /\ enqueued = <<>>
    /\ activationLog = <<>>
    /\ discarded = {}
    /\ pc = "clock"
    /\ thrown = FALSE
    /\ moveCall = NoCall

\* queueAnimation(createMoveSequence(targetX, targetY, avoidX, avoidY, duration), priority)
QueueMove(t, av, sd, vp, d, p) ==
    LET moveSeq == createMoveSequence(blot, t[1], t[2], av[1], av[2], d, sd, vp[1], vp[2])
    IN /\ SetAnimator(queueAnimation(Animator, moveSeq, p, now))
       /\ moveCall' = [made |-> TRUE, start |-> <<blot.x, blot.y>>, target |-> t,
                       avoid |-> av, side |-> sd, viewport |-> vp,
                       waypoints |-> moveSeq.waypoints]
       /\ UNCHANGED <<blot, now, thrown>>

CallerNext ==
    \/ \E d \in ClockSteps : ClockRoom(d) /\ AdvanceClock(d) /\ UNCHANGED pc
    \/ \E t \in MoveTargets, av \in CallerAvoids, sd \in Sides, vp \in CallerViewports,
          d \in CallerDurations, p \in CallerPriorities :
          Room(1, MaxCallerSeqs) /\ QueueMove(t, av, sd, vp, d, p) /\ UNCHANGED pc
    \/ \E s \in CallerSequences, p \in CallerPriorities :
          Room(1, MaxCallerSeqs) /\ QueueAnimation(s, p) /\ UNCHANGED pc
    \/ \E dt \in UpdateDeltas : Update(dt) /\ UNCHANGED pc

CallerSpec == CallerInit /\ [][CallerNext]_vars

\* ------------------------------------------------------------ claims

Range(f) == {f[i] : i \in DOMAIN f}
PendingIds == {animationQueue[k].id : k \in 1..Len(animationQueue)}
ActiveIds == IF currentSequence = Null THEN {} ELSE {currentSequence.id}
LogPriorities == [i \in 1..Len(activationLog) |-> enqueued[activationLog[i]].priority]
EnqueuedPriorities == [i \in 1..Len(enqueued) |-> enqueued[i].priority]

\* C1 (as stated): three sequences enqueued on an idle Sequencer with
\* priorities 5, 10, 1 and then drained are activated in the order 10, 5, 1.
C1_DrainsTenFiveOne ==
    (EnqueuedPriorities = <<5, 10, 1>> /\ Len(activationLog) = 3)
        => LogPriorities = <<10, 5, 1>>

\* C1 (amended): the sequence enqueued on an idle Sequencer is activated at
\* once, so priorities 5, 10, 1 are activated in the order 5, 10, 1; and every
\* promotion takes a sequence whose priority is highest among those pending.
C1_PromotesHighestPending ==
    /\ [](EnqueuedPriorities = <<5, 10, 1>> /\ Len(activationLog) = 3
            => LogPriorities = <<5, 10, 1>>)
    /\ [][Len(activationLog') > Len(activationLog)
            => \A k \in 1..Len(animationQueue') :
                   currentSequence'.priority >= animationQueue'[k].priority]_vars

C1_Witness ==
    /\ EnqueuedPriorities = <<5, 10, 1>>
    /\ LogPriorities = <<5, 10, 1>>
    /\ currentSequence.startTime > 0

\* C2: a sequence is never activated while a sequence of the same priority
\* that was enqueued before it is still pending; the pending queue holds
\* equal priorities in enqueue order.
C2_FifoAmongEqualPriorities ==
    /\ \A i \in Range(activationLog) : \A k \in 1..Len(animationQueue) :
          animationQueue[k].priority = enqueued[i].priority => animationQueue[k].id > i
    /\ \A j, k \in 1..Len(animationQueue) :
          (j < k /\ animationQueue[j].priority = animationQueue[k].priority)
              => animationQueue[j].id < animationQueue[k].id

\* two priority-5 sequences pending in enqueue order behind a priority-10
\* sequence that was enqueued between them and promoted first
C2_Witness ==
    /\ EnqueuedPriorities = <<1, 5, 10, 5>>
    /\ activationLog = <<1, 3>>
    /\ Len(animationQueue) = 2
    /\ animationQueue[1].id = 2 /\ animationQueue[2].id = 4

\* C3: the active sequence is not pending, every sequence enqueued so far is
\* in exactly one of pending, active and discarded, no sequence is pending
\* twice and none is activated twice.
C3_OneActiveExactlyOneState ==
    /\ PendingIds \cap ActiveIds = {}
    /\ PendingIds \cap discarded = {}
    /\ ActiveIds \cap discarded = {}
    /\ PendingIds \cup ActiveIds \cup discarded = 1..(nextId - 1)
    /\ Cardinality(PendingIds) = Len(animationQueue)
    /\ Cardinality(Range(activationLog)) = Len(activationLog)

C3_Witness ==
    /\ PendingIds # {}
    /\ ActiveIds # {}
    /\ discarded # {}
    /\ Len(activationLog) >= 2

\* C4 (as stated): every sequence enqueued is promoted in the end, also those
\* of a second transitionToState call made after the first has played out.
\* The driver has run all its frames, at least SecondCallFrames of them after
\* the second call, and every sequence enqueued has been activated.
C4_EveryEnqueuedPromoted ==
    (pc = "clock" /\ nextId > 1 /\ ~FramesLeft(1))
        => \A i \in 1..(nextId - 1) : i \in Range(activationLog)

\* C5: while a breathing sequence is active, no step other than emergencyStop
\* changes the active sequence or activates another.
C5_BreathingKeepsTheSlot ==
    [][(currentSequence.type = "breathing" /\ ~EmergencyStop)
          => (currentSequence' = currentSequence /\ activationLog' = activationLog)]_vars

\* a breathing sequence still active after the clock advanced past its
\* activation, with a priority-10 sequence pending behind it
C5_Witness ==
    /\ currentSequence.type = "breathing"
    /\ now > currentSequence.startTime
    /\ \E k \in 1..Len(animationQueue) : animationQueue[k].priority = 10
    /\ blot.breathingIntensity = currentSequence.intensity

\* C6: emergencyStop leaves the queue empty and nothing active; whenever
\* nothing is active the queue is empty, and update, whatever its deltaTime,
\* then changes neither the field nor the animator.
C6_StopThenUpdateIsNoOp ==
    /\ [][EmergencyStop
            => (animationQueue' = <<>> /\ currentSequence' = Null /\ ~isAnimating')]_vars
    /\ [](currentSequence = Null => animationQueue = <<>>)
    /\ [][(currentSequence = Null /\ \E dt \in UpdateDeltas : Update(dt))
            => (blot' = blot /\ animationQueue' = <<>> /\ currentSequence' = Null)]_vars

\* stopped with a sequence dropped from the queue before it ever ran, the
\* field already moved off its initial morph factor
C6_Witness ==
    /\ currentSequence = Null /\ animationQueue = <<>>
    /\ \E i \in discarded : i \notin Range(activationLog)
    /\ blot.morphFactor > 0

\* C7 (as stated): in the scenario, once the morph and the move have both run
\* their durations, morphFactor is at 1.0 (within 0.01) and stays there.
C7_MorphSettlesAtOne ==
    (nextId = 4 /\ PlayedOut) => blot.morphFactor >= Scale - 10

\* the largest distance the rounded smoothing step no longer closes
PosEps == 50 \div 8
\* the morph and the move, then the frames the smoothing needs
SettledBy == 600 + 800 + 6600

\* C8: in the scenario the position never exceeds (300, 300); from the update
\* that completes the move on, the target position is exactly (300, 300), and
\* once the smoothing has settled the position is within PosEps of it.
C8_PositionReachesTarget ==
    /\ blot.x <= ScenarioTarget[1] /\ blot.y <= ScenarioTarget[2]
    /\ blot.x <= blot.targetX /\ blot.y <= blot.targetY
    /\ (nextId > 1 /\ PlayedOut)
          => (blot.targetX = ScenarioTarget[1] /\ blot.targetY = ScenarioTarget[2])
    /\ now >= SettledBy
          => (blot.x >= ScenarioTarget[1] - PosEps /\ blot.y >= ScenarioTarget[2] - PosEps)

C8_Witness ==
    /\ nextId = 4 /\ PlayedOut
    /\ now >= SettledBy
    /\ blot.targetX = ScenarioTarget[1] /\ blot.targetY = ScenarioTarget[2]
    /\ blot.x > InitialX /\ blot.x >= ScenarioTarget[1] - PosEps

\* position in the activation log, 0 when not (yet) activated
LogPos(i) ==
    IF i \in Range(activationLog)
    THEN CHOOSE k \in 1..Len(activationLog) : activationLog[k] = i
    ELSE 0
\* i, if activated at all, was activated after j
After(i, j) == LogPos(i) > 0 => (LogPos(j) > 0 /\ LogPos(j) < LogPos(i))
Kinds(q) == [k \in 1..Len(q) |-> [type |-> q[k].type, priority |-> q[k].priority]]

\* C9: transitionToState on an idle Sequencer makes the morph (priority 10)
\* active at once, leaves pending the move (priority 9, only when both target
\* coordinates are given) and the mode's breathing preset (priority 1), and
\* sets the field's mode while morphFactor and the position are untouched; the
\* sequences of one call are activated in the order morph, move, breathing.
C9_TransitionQueuesMorphMoveBreathing ==
    /\ [][(currentSequence = Null /\ nextId' > nextId) =>
          \A m \in Modes, t \in Targets, av \in AvoidPoints, sd \in Sides, vp \in Viewports :
            TransitionToState(m, t, av, sd, vp)
              => /\ currentSequence'.type = "morph"
                 /\ currentSequence'.priority = 10
                 /\ currentSequence'.toValue = MorphValue(m)
                 /\ Kinds(animationQueue') =
                       (IF t[1] # NullCoord /\ t[2] # NullCoord
                        THEN <<[type |-> "move", priority |-> 9]>> ELSE <<>>)
                       \o <<[type |-> "breathing", priority |-> 1]>>
                 /\ animationQueue'[Len(animationQueue')].intensity = PresetIntensity(m)
                 /\ blot'.state = m
                 /\ blot'.morphFactor = blot.morphFactor
                 /\ blot'.x = blot.x /\ blot'.y = blot.y
                 /\ blot'.targetX = blot.targetX /\ blot'.targetY = blot.targetY]_vars
    /\ [](\A i \in 2..Len(enqueued) :
            enqueued[i].type = "breathing"
              => IF enqueued[i - 1].type = "move"
                 THEN After(i, i - 1) /\ After(i - 1, i - 2)
                 ELSE After(i, i - 1))

\* a transition with a target, made on the idle Sequencer, played through
C9_Witness ==
    /\ Kinds(enqueued) = <<[type |-> "morph", priority |-> 10],
                           [type |-> "move", priority |-> 9],
                           [type |-> "breathing", priority |-> 1]>>
    /\ activationLog = <<1, 2, 3>>
    /\ blot.state = "active"

\* C10: morphFactor and targetMorphFactor stay within [0, 1].
C10_MorphFactorsInUnitInterval ==
    /\ blot.morphFactor # NaN
    /\ 0 <= blot.morphFactor /\ blot.morphFactor <= Scale
    /\ 0 <= blot.targetMorphFactor /\ blot.targetMorphFactor <= Scale

\* a morph that started from a non-zero value is under way and SDFBlot.update
\* has smoothed the value it wrote
C10_Witness ==
    /\ currentSequence.type = "morph"
    /\ currentSequence.fromValue > 0
    /\ now > currentSequence.startTime
    /\ blot.time > 0
    /\ blot.morphFactor \notin {0, 300, Scale}

\* C11 (as stated): setState(m) leaves targetMorphFactor at the table value of
\* m (0, 0.3, 1.0) for each of the Sequencer's modes idle, active and
\* menuExpanded, and after transitionToState(m) targetMorphFactor equals the
\* toValue of the morph sequence the call enqueued.
C11_TargetMatchesMorphToValue ==
    /\ [][\A m \in Modes : SetState(m) => blot'.targetMorphFactor = MorphValue(m)]_vars
    /\ [][\A m \in Modes, sd \in Sides, vp \in Viewports :
            TransitionToState(m, <<NullCoord, NullCoord>>, <<0, 0>>, sd, vp)
              => \E s \in {currentSequence'} \cup Range(animationQueue') :
                    /\ s.id = nextId /\ s.type = "morph"
                    /\ blot'.targetMorphFactor = s.toValue]_vars

\* C12: setState with a string that is not a case label of its switch changes
\* none of targetMorphFactor, morphFactor, the position and the target
\* position, and raises nothing.
C12_UnknownModeIgnored ==
    [][\A m \in SetStateInputs \ KnownModes :
          SetState(m) => /\ blot'.targetMorphFactor = blot.targetMorphFactor
                         /\ blot'.morphFactor = blot.morphFactor
                         /\ blot'.x = blot.x /\ blot'.y = blot.y
                         /\ blot'.targetX = blot.targetX /\ blot'.targetY = blot.targetY
                         /\ thrown' = thrown]_vars

\* setState("hover") was called on a field whose target morph factor and
\* morph factor were off their initial values, and both are still there
C12_Witness ==
    /\ blot.state = "hover"
    /\ blot.targetMorphFactor = Scale
    /\ blot.morphFactor > 0

\* the last waypoint of the active sequence
FinalWaypoint == currentSequence.waypoints[Len(currentSequence.waypoints)]
\* update is called while a move sequence is active
MoveUpdated == currentSequence.type = "move" /\ \E dt \in UpdateDeltas : Update(dt)

\* C13 (as stated): when the active move sequence's progress is 1, update
\* sets the target position to the last waypoint, for any waypoint list of
\* length >= 1.
C13_SnapsForAnyWaypointCount ==
    [][(MoveUpdated /\ Len(currentSequence.waypoints) >= 1
          /\ CurrentProgress(currentSequence, now) = Scale)
        => (blot'.targetX = FinalWaypoint.x /\ blot'.targetY = FinalWaypoint.y)]_vars

\* C13 (amended): with two or more waypoints, the update at which progress is
\* 1 sets the target position to exactly the last waypoint and retires the
\* sequence; with fewer than two waypoints update never touches the field.
C13_SnapsWithTwoOrMoreWaypoints ==
    [][MoveUpdated =>
          IF Len(currentSequence.waypoints) < 2
          THEN blot' = blot
          ELSE CurrentProgress(currentSequence, now) = Scale
                 => /\ blot'.targetX = FinalWaypoint.x
                    /\ blot'.targetY = FinalWaypoint.y
                    /\ currentSequence.id \in discarded']_vars

\* a move from (100, 100) to (200, 0) by way of a detour has run to its end
\* and was retired
C13_Witness ==
    /\ discarded = {1} /\ currentSequence = Null
    /\ enqueued[1].type = "move"
    /\ Len(moveCall.waypoints) = 3
    /\ blot.x = 100 * PosScale /\ blot.y = 100 * PosScale
    /\ blot.targetX = 200 * PosScale /\ blot.targetY = 0
    /\ ~thrown

\* distance between two points, in tenths of a pixel (floor)
Distance(a, b) == Isqrt((a[1] - b[1]) * (a[1] - b[1]) + (a[2] - b[2]) * (a[2] - b[2]))
Point(w) == <<w.x, w.y>>
\* the condition under which createMoveSequence inserts the detour:
\* start-to-avoid under 100 and start-to-target over 50
DetourDue ==
    /\ Distance(moveCall.start, moveCall.avoid) < 100 * PosScale
    /\ (moveCall.target[1] - moveCall.start[1]) * (moveCall.target[1] - moveCall.start[1])
         + (moveCall.target[2] - moveCall.start[2]) * (moveCall.target[2] - moveCall.start[2])
           > (50 * PosScale) * (50 * PosScale)
\* the returned list starts at the field's position, ends at the target, and
\* has 3 entries when the detour is due and 2 otherwise
WaypointsShaped ==
    LET w == moveCall.waypoints
    IN /\ Point(w[1]) = moveCall.start
       /\ Point(w[Len(w)]) = moveCall.target
       /\ Len(w) = IF DetourDue THEN 3 ELSE 2
\* the call of the example: start (0,0), target (200,0), avoid (50,0)
IsExample ==
    /\ moveCall.made
    /\ moveCall.start = <<0, 0>>
    /\ moveCall.target = <<200 * PosScale, 0>>
    /\ moveCall.avoid = <<50 * PosScale, 0>>

\* C14 (as stated): the list createMoveSequence returns starts at the current
\* position, ends at the target, has 3 entries when start-to-avoid is under
\* 100 and start-to-target over 50 and 2 otherwise; in the example the list has
\* 3 entries and the middle one is at distance 120 from the avoid point.
C14_DetourAtDistance120 ==
    /\ moveCall.made => WaypointsShaped
    /\ IsExample =>
          /\ Len(moveCall.waypoints) = 3
          /\ Distance(Point(moveCall.waypoints[2]), moveCall.avoid)
                \in (120 * PosScale - 1)..(120 * PosScale + 1)

\* C14 (amended): the shape of the list as stated; in the example the list has
\* 3 entries and the middle one is the point (50, 120) or (50, -120), by the
\* random side, clamped into the viewport: its x is 60, and its y is
\* max(60, min(height - 60, 120)) for the +PI/2 side and 60 for the other.
C14_DetourClampedInExample ==
    /\ moveCall.made => WaypointsShaped
    /\ IsExample =>
          /\ Len(moveCall.waypoints) = 3
          /\ moveCall.waypoints[2].x = 60 * PosScale
          /\ moveCall.waypoints[2].y =
                IF moveCall.side = 1
                THEN Max(60 * PosScale, Min(moveCall.viewport[2] - 60 * PosScale, 120 * PosScale))
                ELSE 60 * PosScale

\* the example's call was made in the 800 x 600 viewport and took the +PI/2
\* side: the middle waypoint is (60, 120)
C14_Witness ==
    /\ IsExample
    /\ moveCall.waypoints =
          <<[x |-> 0, y |-> 0], [x |-> 60 * PosScale, y |-> 120 * PosScale],
            [x |-> 200 * PosScale, y |-> 0]>>

\* C15 (as stated): an inserted detour waypoint satisfies 60 <= x <= width - 60
\* and 60 <= y <= height - 60 for every viewport size.
C15_DetourInsideEveryViewport ==
    Len(moveCall.waypoints) = 3 =>
        /\ 60 * PosScale <= moveCall.waypoints[2].x
        /\ moveCall.waypoints[2].x <= moveCall.viewport[1] - 60 * PosScale
        /\ 60 * PosScale <= moveCall.waypoints[2].y
        /\ moveCall.waypoints[2].y <= moveCall.viewport[2] - 60 * PosScale

\* C15 (amended): an inserted detour waypoint has x >= 60 and y >= 60 in every
\* viewport; x <= width - 60 holds when the width is at least 120 and
\* y <= height - 60 when the height is at least 120; on a smaller axis the
\* coordinate is 60.
C15_DetourInsideViewportOf120 ==
    Len(moveCall.waypoints) = 3 =>
        /\ 60 * PosScale <= moveCall.waypoints[2].x
        /\ 60 * PosScale <= moveCall.waypoints[2].y
        /\ IF moveCall.viewport[1] >= 120 * PosScale
           THEN moveCall.waypoints[2].x <= moveCall.viewport[1] - 60 * PosScale
           ELSE moveCall.waypoints[2].x = 60 * PosScale
        /\ IF moveCall.viewport[2] >= 120 * PosScale
           THEN moveCall.waypoints[2].y <= moveCall.viewport[2] - 60 * PosScale
           ELSE moveCall.waypoints[2].y = 60 * PosScale

\* a detour near the far corner of the 800 x 600 viewport, held back to
\* (740, 540) on both axes
C15_Witness ==
    /\ moveCall.start = <<750 * PosScale, 550 * PosScale>>
    /\ moveCall.viewport = <<800 * PosScale, 600 * PosScale>>
    /\ Len(moveCall.waypoints) = 3
    /\ moveCall.waypoints[2] = [x |-> 740 * PosScale, y |-> 540 * PosScale]

\* C16 (as stated): no call of update throws, and the field's target position
\* and morphFactor are never NaN, also for sequences of duration 0 and for
\* move sequences with fewer than 2 waypoints.
C16_UpdateNeverFails ==
    /\ ~thrown
    /\ blot.morphFactor # NaN
    /\ blot.targetX # NaN /\ blot.targetY # NaN

\* C17: queueAnimation on a Sequencer with nothing active makes the enqueued
\* sequence active in the same call, with startTime the current clock and the
\* queue left empty; with a sequence active it leaves that sequence and its
\* startTime as they are, whatever the new priority, and only adds the new
\* sequence to the pending queue.
C17_PromotesOnlyWhenIdle ==
    [][\A s \in QueuedSequences, p \in Priorities :
          QueueAnimation(s, p) =>
            IF currentSequence = Null
            THEN /\ currentSequence'.id = nextId
                 /\ currentSequence'.priority = p
                 /\ currentSequence'.startTime = now
                 /\ animationQueue' = <<>>
            ELSE /\ currentSequence' = currentSequence
                 /\ activationLog' = activationLog
                 /\ Len(animationQueue') = Len(animationQueue) + 1
                 /\ PendingIds' = PendingIds \cup {nextId}]_vars

\* a priority-10 sequence waits behind an active priority-1 morph that was
\* started earlier
C17_Witness ==
    /\ currentSequence.type = "morph"
    /\ currentSequence.priority = 1
    /\ currentSequence.startTime < now
    /\ Len(animationQueue) = 1
    /\ animationQueue[1].priority = 10

\* the field a sequence type writes
OwnedField(b, type) ==
    CASE type = "move" -> <<b.targetX, b.targetY>>
      [] type = "morph" -> <<b.morphFactor>>
      [] type = "breathing" -> <<b.breathingIntensity>>

\* C18: update retires the active sequence exactly when its progress is >= 1
\* and it is not continuous; in the same call the head of the pending queue,
\* if any, becomes active with startTime the current clock, and its handler
\* has not run yet; otherwise the active sequence and the queue are
\* unchanged.  With the clock advancing and update called again and again,
\* every active non-continuous sequence of positive duration is retired.
C18_RetiresWhenComplete ==
    /\ [][(currentSequence # Null /\ \E d \in FrameSteps : Update(d)) =>
            IF now - currentSequence.startTime >= currentSequence.duration
               /\ currentSequence.duration # Undefined
               /\ ~currentSequence.continuous
            THEN /\ currentSequence.id \in discarded'
                 /\ IF animationQueue = <<>>
                    THEN currentSequence' = Null /\ ~isAnimating'
                    ELSE /\ currentSequence' = [Head(animationQueue) EXCEPT !.startTime = now]
                         /\ animationQueue' = Tail(animationQueue)
                         /\ Head(animationQueue).type # currentSequence.type
                               => OwnedField(blot', Head(animationQueue).type)
                                    = OwnedField(blot, Head(animationQueue).type)
            ELSE /\ currentSequence' = currentSequence
                 /\ animationQueue' = animationQueue
                 /\ discarded' = discarded]_vars
    /\ \A i \in 1..3 :
          (ActiveIds = {i} /\ ~currentSequence.continuous /\ currentSequence.duration > 0)
             ~> (i \in discarded)

\* the update that retired the morph has just made the move active: its
\* startTime is the current clock and the target position is still untouched
C18_Witness ==
    /\ pc = "field"
    /\ currentSequence.type = "move"
    /\ currentSequence.startTime = now /\ now > 0
    /\ discarded = {1}
    /\ blot.targetX = InitialX /\ blot.targetY = InitialY
    /\ blot.morphFactor = Scale

\* C19: update changes, of the field, only what the active sequence's type
\* owns: the target position for a move, the current morphFactor for a morph,
\* the breathing intensity for a breathing sequence; the position, the
\* targetMorphFactor and the mode are never written.
C19_UpdateWritesOnlyOwnedField ==
    [][(currentSequence # Null /\ \E dt \in UpdateDeltas : Update(dt)) =>
          /\ currentSequence.type = "move"
                => blot' = [blot EXCEPT !.targetX = blot'.targetX, !.targetY = blot'.targetY]
          /\ currentSequence.type = "morph"
                => blot' = [blot EXCEPT !.morphFactor = blot'.morphFactor]
          /\ currentSequence.type = "breathing"
                => blot' = [blot EXCEPT !.breathingIntensity = blot'.breathingIntensity]]_vars

\* a move under way: the target position is between start and end, the
\* position is where it was, and the morph before it has left its value
C19_Witness ==
    /\ currentSequence.type = "move"
    /\ blot.targetX > blot.x /\ blot.targetX < 300 * PosScale
    /\ blot.x = InitialX
    /\ blot.morphFactor > 0
    /\ blot.morphFactor # blot.targetMorphFactor

\* C20: isAnimating is true exactly when a sequence is active, and with
\* nothing active nothing is pending.
C20_FlagMatchesActive ==
    /\ isAnimating <=> currentSequence # Null
    /\ currentSequence = Null => animationQueue = <<>>

\* the Sequencer has gone idle by itself: two sequences were enqueued, both
\* ran and were retired by update
C20_Witness ==
    /\ ~isAnimating /\ currentSequence = Null
    /\ Kinds(enqueued) = <<[type |-> "morph", priority |-> 1], [type |-> "morph", priority |-> 10]>>
    /\ activationLog = <<1, 2>>
    /\ discarded = {1, 2}
    /\ currentSequence.startTime = Undefined
====
